---- MODULE Spec2Model ----
(***************************************************************************)
(* Peg-reconciliation engine of stable-channels-lsp (src/src/stable.rs,    *)
(* driven by src/src/user.rs and src/src/lsp.rs).                          *)
(*                                                                         *)
(* Units.  Bitcoin amounts are integer satoshis, payment amounts integer   *)
(* millisatoshis, as in the code.  USD amounts and prices are f64 in the   *)
(* code; here they are exact integers on a fixed grid: a price is the      *)
(* number of fiat grid units one millisatoshi is worth (0 = no price       *)
(* known) and a USD amount is a signed number of those grid units, so that *)
(* sats -> USD is an exact multiplication and USD -> msat an exact floor   *)
(* division.  Floating-point rounding error is not modelled.  All amounts  *)
(* are scaled down so that they fit the 32-bit integers of the checker.    *)
(***************************************************************************)
EXTENDS Integers, Sequences, FiniteSets, TLC

VARIABLES
    channels,         \* node.list_channels(): the runtime's live channel list
    cached_price,     \* price_feeds cache read by get_cached_price(); 0 = unknown
    stable_channel,   \* the StableChannel record a stable.rs function works on (UserApp.stable_channel)
    stable_channels,  \* LspApp.stable_channels
    stable_channels_file, \* data/lsp/stablechannels.json
    btc_price,        \* LspApp.btc_price / UserApp.btc_price
    events,           \* node.next_event(): the runtime's queue of events not yet handled
    ui,               \* where the UI thread of the user application stands in UserApp::new / update
    frames,           \* number of timer runs, event polls and operator commands the application has handled
    sends,            \* calls of node.spontaneous_payment().send made by the last operation
    last,             \* what the last operation was and how it ended
    overflow_checks,  \* the build: TRUE = integer overflow panics (debug), FALSE = it wraps (release)
    panicked          \* the process has aborted on a panic

vars == <<channels, cached_price, stable_channel, stable_channels, stable_channels_file,
          btc_price, events, ui, frames, sends, last, overflow_checks, panicked>>

\* the fields of LspApp the model keeps
lsp_app == <<stable_channels, stable_channels_file, btc_price, frames>>

----------------------------------------------------------------------------
(* Bounds of the model *)

\* stand-in for 2^64 in satoshi arithmetic (u64 wrap-around)
U64Modulus == 128

\* stand-in for u64::MAX as the result of a saturating f64 -> u64 cast
U64Saturated == 2000000000

\* largest risk_level a record is given
MaxRisk == 101

\* number of timer runs, event polls and operator commands of the LSP
\* application that
\* are followed
MaxFrames == 2

\* length of the runtime's event queue that is followed
MaxEvents == 1

----------------------------------------------------------------------------
(* Program constants *)

\* stable.rs:59 / stable.rs:87: outbound_capacity_msat / 1000
MsatPerSat == 1000

\* stable.rs:26: Err(_) => 84000.0, on the price grid of this model
FallbackPrice == 8400

\* stable.rs:192: percent_from_par < 0.1, i.e. |d| / |e| < 1 / DeadBandDivisor
DeadBandDivisor == 1000

\* stable.rs:197: sc.risk_level > 100
RiskThreshold == 100

\* stable.rs:45: ChannelId::from_bytes([0; 32])
DefaultChannelId == 0

----------------------------------------------------------------------------
(* Value sets the inputs are drawn from *)

Abs(x) == IF x < 0 THEN -x ELSE x

Nodes == {"lsp", "peer"}

ChannelIds == {1, 2}

\* prices a feed can deliver (never 0), and the values the cache can hold
Prices == {1998, FallbackPrice}

CachedPrices == Prices \cup {0}

\* result of price_feeds::get_latest_price: Ok(p) or Err
FeedResults == [ok : {TRUE}, price : Prices] \cup {[ok |-> FALSE, price |-> 0]}

\* targets, with one sat worth 1998000 at price 1998: 0; a target 0.1% below
\* one sat by less than a millisat's worth; a target of which one sat falls
\* short by exactly 0.1%; a target 0.05% above ten sats
ExpectedUsds == {0, 1996003, 2000000, 19990000}

RiskLevels == {0, RiskThreshold, MaxRisk}

\* snapshots of channel 1: capacity 20 sats, several balance splits, one of
\* them with outbound/1000 + reserve above the capacity
BalanceSplits == { <<0, 0>>, <<999, 1>>, <<10999, 0>>, <<18000, 1>>, <<20000, 1>> }

ChannelDetails(id, cp, value, outbound, reserve, ready) ==
    [ channel_id |-> id, counterparty_node_id |-> cp, channel_value_sats |-> value,
      outbound_capacity_msat |-> outbound, unspendable_punishment_reserve |-> reserve,
      is_channel_ready |-> ready ]

Channel1Balances ==
    { ChannelDetails(1, "lsp", 20, b[1], b[2], TRUE) : b \in BalanceSplits }

Channel1Half == ChannelDetails(1, "lsp", 20, 10999, 0, TRUE)

\* channel 1 not ready, and channel 1 with another counterparty
Channel1Unusable ==
    { ChannelDetails(1, "lsp", 20, 10999, 0, FALSE),
      ChannelDetails(1, "peer", 20, 10999, 0, TRUE) }

Channel2Snapshot == ChannelDetails(2, "lsp", 30, 5000, 1, TRUE)

\* channel lists for the reconciler and the decision policy
ChannelLists ==
    { <<>>, <<Channel2Snapshot>>, <<Channel1Half, Channel2Snapshot>>,
      <<Channel2Snapshot, Channel1Half>> }
    \cup { <<c>> : c \in Channel1Balances }

\* channel lists for the payment executor
PaymentLists ==
    { <<>>, <<Channel2Snapshot>>, <<Channel1Half>>, <<Channel2Snapshot, Channel1Half>> }
    \cup { <<c>> : c \in Channel1Unusable }

AmountsMsat == {0, 1, 10999, 11000}

----------------------------------------------------------------------------
(* types.rs (Bitcoin, USD) is not among the source files; its conversions  *)
(* follow the monetary-types contract of the specification.  A Bitcoin     *)
(* value is its satoshi count.                                             *)

\* USD::from_bitcoin(btc, price): native amount times exchange rate
USD_from_bitcoin(btc, price) == btc * MsatPerSat * price

\* mutant of USD_to_msats: the amount counted in sats
USD_to_msats_in_sats(usd, price) ==
    IF price = 0
    THEN (IF usd = 0 THEN 0 ELSE U64Saturated)
    ELSE Abs(usd) \div (price * MsatPerSat)

\* USD::to_msats(usd, price): magnitude of the amount at the price, rounded
\* toward zero.  At price 0.0 the quotient is NaN (usd = 0) or infinite, and
\* the cast to u64 gives 0 or saturates.
USD_to_msats(usd, price) ==
    IF price = 0
    THEN (IF usd = 0 THEN 0 ELSE U64Saturated)
    ELSE Abs(usd) \div price

----------------------------------------------------------------------------
(* stable.rs *)

\* get_latest_price: the feed's price, or the hard-coded fallback on Err
get_latest_price(feed) == IF feed.ok THEN feed.price ELSE FallbackPrice

\* channel_exists
channel_exists(chs, channel_id) ==
    \E i \in 1..Len(chs) : chs[i].channel_id = channel_id

\* u64 subtraction as a release build computes it
wrapping_sub(a, b) == IF a >= b THEN a - b ELSE a - b + U64Modulus

\* the balance block of update_balances: our side is the outbound capacity in
\* whole sats plus the punishment reserve, their side the rest of the capacity
channel_balances(channel) ==
    LET our_balance_sats ==
            (channel.outbound_capacity_msat \div MsatPerSat)
            + channel.unspendable_punishment_reserve
    IN  [ our      |-> our_balance_sats,
          their    |-> wrapping_sub(channel.channel_value_sats, our_balance_sats),
          overflow |-> our_balance_sats > channel.channel_value_sats ]

\* mutant of assign_balances: the native target follows the receiver's balance
assign_balances_retargets(sc, our_balance, their_balance) ==
    IF sc.is_stable_receiver
    THEN [sc EXCEPT !.stable_receiver_btc = our_balance,
                    !.stable_receiver_usd = USD_from_bitcoin(our_balance, sc.latest_price),
                    !.stable_provider_btc = their_balance,
                    !.stable_provider_usd = USD_from_bitcoin(their_balance, sc.latest_price),
                    !.expected_btc = our_balance]
    ELSE [sc EXCEPT !.stable_provider_btc = our_balance,
                    !.stable_provider_usd = USD_from_bitcoin(our_balance, sc.latest_price),
                    !.stable_receiver_btc = their_balance,
                    !.stable_receiver_usd = USD_from_bitcoin(their_balance, sc.latest_price),
                    !.expected_btc = their_balance]

\* the role block of update_balances
assign_balances(sc, our_balance, their_balance) ==
    IF sc.is_stable_receiver
    THEN [sc EXCEPT !.stable_receiver_btc = our_balance,
                    !.stable_receiver_usd = USD_from_bitcoin(our_balance, sc.latest_price),
                    !.stable_provider_btc = their_balance,
                    !.stable_provider_usd = USD_from_bitcoin(their_balance, sc.latest_price)]
    ELSE [sc EXCEPT !.stable_provider_btc = our_balance,
                    !.stable_provider_usd = USD_from_bitcoin(our_balance, sc.latest_price),
                    !.stable_receiver_btc = their_balance,
                    !.stable_receiver_usd = USD_from_bitcoin(their_balance, sc.latest_price)]

\* index in chs of the first channel with the given id, 0 if there is none
find_channel(chs, channel_id) ==
    IF channel_exists(chs, channel_id)
    THEN CHOOSE i \in 1..Len(chs) :
             /\ chs[i].channel_id = channel_id
             /\ \A j \in 1..(i-1) : chs[j].channel_id # channel_id
    ELSE 0

\* mutant of matching_channel: an id without a live channel falls back to the
\* first channel of the list
matching_channel_or_first(chs, channel_id) ==
    IF channel_id = DefaultChannelId \/ find_channel(chs, channel_id) = 0
    THEN (IF Len(chs) > 0 THEN 1 ELSE 0)
    ELSE find_channel(chs, channel_id)

\* mutant of matching_channel: an unset id adopts the last channel of the list
matching_channel_adopts_last(chs, channel_id) ==
    IF channel_id = DefaultChannelId
    THEN Len(chs)
    ELSE find_channel(chs, channel_id)

\* index in chs of the channel update_balances uses, 0 if there is none:
\* the first channel for the default id, the first match otherwise
matching_channel(chs, channel_id) ==
    IF channel_id = DefaultChannelId
    THEN (IF Len(chs) > 0 THEN 1 ELSE 0)
    ELSE find_channel(chs, channel_id)

\* mutant of update_balances: the record is bound to the channel used even
\* when it already has an id
update_balances_rebinds(chs, sc, feed, checks) ==
    LET priced == IF sc.latest_price = 0
                  THEN [sc EXCEPT !.latest_price = get_latest_price(feed)]
                  ELSE sc
        i == IF Len(chs) > 0 THEN 1 ELSE 0
    IN  IF i = 0
        THEN [found |-> FALSE, sc |-> priced, panic |-> FALSE, channel_value_sats |-> 0]
        ELSE LET bal == channel_balances(chs[i])
                 bound == [priced EXCEPT !.channel_id = chs[i].channel_id]
             IN  IF bal.overflow /\ checks
                 THEN [found |-> TRUE, sc |-> sc, panic |-> TRUE,
                       channel_value_sats |-> chs[i].channel_value_sats]
                 ELSE [found |-> TRUE, sc |-> assign_balances(bound, bal.our, bal.their),
                       panic |-> FALSE,
                       channel_value_sats |-> chs[i].channel_value_sats]

\* update_balances(node, sc) -> (matching_channel_found, sc); panic is set
\* when the subtraction overflows in a build with overflow checks
update_balances(chs, sc, feed, checks) ==
    LET priced == IF sc.latest_price = 0
                  THEN [sc EXCEPT !.latest_price = get_latest_price(feed)]
                  ELSE sc
        i == matching_channel(chs, priced.channel_id)
    IN  IF i = 0
        THEN [found |-> FALSE, sc |-> priced, panic |-> FALSE, channel_value_sats |-> 0]
        ELSE LET bal == channel_balances(chs[i])
                 bound == [priced EXCEPT !.channel_id = chs[i].channel_id]
             IN  IF bal.overflow /\ checks
                 THEN [found |-> TRUE, sc |-> sc, panic |-> TRUE,
                       channel_value_sats |-> chs[i].channel_value_sats]
                 ELSE [found |-> TRUE, sc |-> assign_balances(bound, bal.our, bal.their),
                       panic |-> FALSE,
                       channel_value_sats |-> chs[i].channel_value_sats]

\* dollars_from_par
dollars_from_par(sc) == sc.stable_receiver_usd - sc.expected_usd

\* mutant of percent_from_par_below_threshold: percent_from_par <= 0.1
percent_from_par_at_most_threshold(sc) ==
    /\ sc.expected_usd # 0
    /\ Abs(sc.stable_receiver_usd - sc.expected_usd) <= Abs(sc.expected_usd) \div DeadBandDivisor

\* percent_from_par < 0.1, with percent_from_par = |d / e * 100|; for e = 0
\* the quotient is infinite or NaN and the comparison is false
percent_from_par_below_threshold(sc) ==
    /\ sc.expected_usd # 0
    /\ Abs(dollars_from_par(sc)) <= (Abs(sc.expected_usd) - 1) \div DeadBandDivisor

\* mutant of stability_action: the two provider arms exchanged
stability_action_provider_swapped(sc) ==
    IF percent_from_par_below_threshold(sc)
    THEN "DoNothing"
    ELSE LET is_receiver_below_expected == sc.stable_receiver_usd < sc.expected_usd
         IN  IF sc.risk_level > RiskThreshold THEN "HighRisk"
             ELSE IF sc.is_stable_receiver
                  THEN (IF is_receiver_below_expected THEN "Wait" ELSE "Pay")
                  ELSE (IF is_receiver_below_expected THEN "Wait" ELSE "Pay")

\* mutant of stability_action: the high-risk arm placed after the others
stability_action_risk_arm_last(sc) ==
    IF percent_from_par_below_threshold(sc)
    THEN "DoNothing"
    ELSE LET is_receiver_below_expected == sc.stable_receiver_usd < sc.expected_usd
         IN  IF sc.is_stable_receiver
             THEN (IF is_receiver_below_expected THEN "Wait" ELSE "Pay")
             ELSE (IF is_receiver_below_expected THEN "Pay" ELSE "Wait")

\* the action chosen by check_stability
stability_action(sc) ==
    IF percent_from_par_below_threshold(sc)
    THEN "DoNothing"
    ELSE LET is_receiver_below_expected == sc.stable_receiver_usd < sc.expected_usd
         IN  IF sc.risk_level > RiskThreshold THEN "HighRisk"
             ELSE IF sc.is_stable_receiver
                  THEN (IF is_receiver_below_expected THEN "Wait" ELSE "Pay")
                  ELSE (IF is_receiver_below_expected THEN "Pay" ELSE "Wait")

\* mutant of pay_the_difference: payment_made follows the result of the send
pay_the_difference_flag_follows_send(sc, send_ok) ==
    LET amt == USD_to_msats(dollars_from_par(sc), sc.latest_price)
    IN  [ sc    |-> [sc EXCEPT !.payment_made = send_ok],
          sends |-> << [amount |-> amt, destination |-> sc.counterparty] >> ]

\* the Pay arm of check_stability: one send, payment_made set on Ok
pay_the_difference(sc, send_ok) ==
    LET amt == USD_to_msats(dollars_from_par(sc), sc.latest_price)
    IN  [ sc    |-> IF send_ok THEN [sc EXCEPT !.payment_made = TRUE] ELSE sc,
          sends |-> << [amount |-> amt, destination |-> sc.counterparty] >> ]

\* mutant of check_stability: a pass that does not pay raises risk_level
check_stability_raises_risk(chs, sc, feed, send_ok, checks) ==
    LET ub == update_balances(chs, sc, feed, checks)
        updated == IF ub.found THEN ub.sc ELSE sc
        action == stability_action(updated)
        paid == pay_the_difference(updated, send_ok)
    IN  IF ub.panic
        THEN [sc |-> sc, action |-> "Panic", sends |-> <<>>, found |-> ub.found,
              panic |-> TRUE, channel_value_sats |-> ub.channel_value_sats]
        ELSE [sc |-> IF action = "Pay" THEN paid.sc
                     ELSE [updated EXCEPT !.risk_level =
                               IF @ < MaxRisk THEN @ + 1 ELSE @],
              action |-> action,
              sends |-> IF action = "Pay" THEN paid.sends ELSE <<>>,
              found |-> ub.found, panic |-> FALSE,
              channel_value_sats |-> ub.channel_value_sats]

\* check_stability(node, &mut sc)
check_stability(chs, sc, feed, send_ok, checks) ==
    LET ub == update_balances(chs, sc, feed, checks)
        updated == IF ub.found THEN ub.sc ELSE sc
        action == stability_action(updated)
        paid == pay_the_difference(updated, send_ok)
    IN  IF ub.panic
        THEN [sc |-> sc, action |-> "Panic", sends |-> <<>>, found |-> ub.found,
              panic |-> TRUE, channel_value_sats |-> ub.channel_value_sats]
        ELSE [sc |-> IF action = "Pay" THEN paid.sc ELSE updated,
              action |-> action,
              sends |-> IF action = "Pay" THEN paid.sends ELSE <<>>,
              found |-> ub.found, panic |-> FALSE,
              channel_value_sats |-> ub.channel_value_sats]

\* mutant of execute_payment: the zero-amount check made after the channel checks
execute_payment_zero_check_last(chs, amount_msats, sc, send_ok) ==
    LET i == find_channel(chs, sc.channel_id)
        none == <<>>
        call == << [amount |-> amount_msats, destination |-> sc.counterparty] >>
    IN  IF i = 0 THEN [result |-> "ChannelNotFound", sends |-> none]
        ELSE IF ~chs[i].is_channel_ready THEN [result |-> "ChannelNotReady", sends |-> none]
        ELSE IF chs[i].outbound_capacity_msat < amount_msats
             THEN [result |-> "InsufficientCapacity", sends |-> none]
        ELSE IF chs[i].counterparty_node_id # sc.counterparty
             THEN [result |-> "CounterpartyMismatch", sends |-> none]
        ELSE IF amount_msats = 0 THEN [result |-> "ZeroAmount", sends |-> none]
        ELSE [result |-> IF send_ok THEN "Ok" ELSE "SendFailed", sends |-> call]

\* mutant of execute_payment: an amount equal to the outbound capacity rejected
execute_payment_strict_capacity(chs, amount_msats, sc, send_ok) ==
    LET i == find_channel(chs, sc.channel_id)
        none == <<>>
        call == << [amount |-> amount_msats, destination |-> sc.counterparty] >>
    IN  IF amount_msats = 0 THEN [result |-> "ZeroAmount", sends |-> none]
        ELSE IF i = 0 THEN [result |-> "ChannelNotFound", sends |-> none]
        ELSE IF ~chs[i].is_channel_ready THEN [result |-> "ChannelNotReady", sends |-> none]
        ELSE IF chs[i].outbound_capacity_msat <= amount_msats
             THEN [result |-> "InsufficientCapacity", sends |-> none]
        ELSE IF chs[i].counterparty_node_id # sc.counterparty
             THEN [result |-> "CounterpartyMismatch", sends |-> none]
        ELSE [result |-> IF send_ok THEN "Ok" ELSE "SendFailed", sends |-> call]

\* execute_payment(node, amount_msats, &sc) -> Result
execute_payment(chs, amount_msats, sc, send_ok) ==
    LET i == find_channel(chs, sc.channel_id)
        none == <<>>
        call == << [amount |-> amount_msats, destination |-> sc.counterparty] >>
    IN  IF amount_msats = 0 THEN [result |-> "ZeroAmount", sends |-> none]
        ELSE IF i = 0 THEN [result |-> "ChannelNotFound", sends |-> none]
        ELSE IF ~chs[i].is_channel_ready THEN [result |-> "ChannelNotReady", sends |-> none]
        ELSE IF chs[i].outbound_capacity_msat < amount_msats
             THEN [result |-> "InsufficientCapacity", sends |-> none]
        ELSE IF chs[i].counterparty_node_id # sc.counterparty
             THEN [result |-> "CounterpartyMismatch", sends |-> none]
        ELSE [result |-> IF send_ok THEN "Ok" ELSE "SendFailed", sends |-> call]

----------------------------------------------------------------------------
(* lsp.rs: the functions of LspApp *)

\* ChannelId::to_string: the text the operator enters and the file stores
channel_id_to_string(id) ==
    CASE id = 1 -> "01"
      [] id = 2 -> "02"
      [] OTHER  -> "00"

\* str::trim on the texts the operator can enter
trim(s) == IF s = " 02" THEN "02" ELSE s

\* LspApp.selected_channel_id: nothing, channel 1, channel 2 with a leading
\* blank, a well-formed id of no channel
SelectedChannelIds == {"", "01", " 02", "03"}

\* stable_channel_amount.parse::<f64>(): Ok(val) or Err; the targets are
\* within 0.1% of one sat at price 1998, and about ten sats at that price
StableChannelAmounts ==
    [ok : {TRUE}, value : {1998500, 19990000}] \cup {[ok |-> FALSE, value |-> 0]}

\* the LSP's channels are with the user's node; the user's side holds one
\* sat, or the LSP's side exceeds the capacity
LspChannel1Low == ChannelDetails(1, "peer", 20, 18000, 1, TRUE)

LspChannel1Over == ChannelDetails(1, "peer", 20, 20000, 1, TRUE)

LspChannel2 == ChannelDetails(2, "peer", 30, 28000, 1, TRUE)

LspChannelLists ==
    { <<>>, <<LspChannel1Low>>, <<LspChannel1Over>>, <<LspChannel1Low, LspChannel2>> }

\* Bitcoin::from_usd(usd, price) (types.rs, not among the source files): the
\* amount at the price in whole sats, rounded toward zero; at price 0.0 the
\* quotient is NaN (usd = 0) or infinite
Bitcoin_from_usd(usd, price) ==
    IF price = 0
    THEN (IF usd = 0 THEN 0 ELSE U64Saturated)
    ELSE usd \div (price * MsatPerSat)

\* the StableChannel literal of designate_stable_channel and
\* load_stable_channels, with the balance lines before it
lsp_stable_channel(channel, expected_usd, expected_btc, price) ==
    LET bal == channel_balances(channel)
    IN  [ channel_id |-> channel.channel_id,
          counterparty |-> channel.counterparty_node_id,
          is_stable_receiver |-> FALSE,
          expected_usd |-> expected_usd, expected_btc |-> expected_btc,
          stable_receiver_btc |-> bal.their,
          stable_receiver_usd |-> USD_from_bitcoin(bal.their, price),
          stable_provider_btc |-> bal.our,
          stable_provider_usd |-> USD_from_bitcoin(bal.our, price),
          latest_price |-> price, risk_level |-> 0, payment_made |-> FALSE ]

\* index of the first channel whose id prints as the text, 0 if there is none
find_channel_by_text(chs, text) ==
    LET m == { i \in 1..Len(chs) : channel_id_to_string(chs[i].channel_id) = text }
    IN  IF m = {} THEN 0 ELSE CHOOSE i \in m : \A j \in m : i <= j

\* StableChannelEntry of a record; native_btc holds expected_btc.to_btc(),
\* which Bitcoin::from_btc turns back into the same sats
StableChannelEntry(rec) ==
    [ channel_id |-> channel_id_to_string(rec.channel_id),
      expected_usd |-> rec.expected_usd, native_btc |-> rec.expected_btc ]

NoFile == [exists |-> FALSE, entries |-> <<>>]

\* save_stable_channels: the whole list is written (the write succeeds)
save_stable_channels(scs) ==
    [ exists |-> TRUE, entries |-> [i \in 1..Len(scs) |-> StableChannelEntry(scs[i])] ]

\* the loop of load_stable_channels: the entries that have a live channel,
\* in the order of the file, each with the balances of its channel
load_entries(entries, chs, price, checks) ==
    LET live == SelectSeq(entries, LAMBDA e : find_channel_by_text(chs, e.channel_id) # 0)
        channel_of(e) == chs[find_channel_by_text(chs, e.channel_id)]
    IN  [ scs   |-> [ i \in 1..Len(live) |->
                        lsp_stable_channel(channel_of(live[i]), live[i].expected_usd,
                                           live[i].native_btc, price) ],
          panic |-> checks /\ \E i \in 1..Len(live) :
                                  channel_balances(channel_of(live[i])).overflow ]

\* load_stable_channels on an application that has no records yet
load_stable_channels(file, chs, price, checks) ==
    IF ~file.exists
    THEN [stable_channels |-> <<>>, panic |-> FALSE]
    ELSE LET r == load_entries(file.entries, chs, price, checks)
         IN  [ stable_channels |-> IF r.panic THEN <<>> ELSE r.scs, panic |-> r.panic ]

\* the replace-or-push of designate_stable_channel
replace_or_push(scs, rec) ==
    LET m == { i \in 1..Len(scs) : scs[i].channel_id = rec.channel_id }
    IN  IF m = {} THEN Append(scs, rec)
        ELSE LET k == CHOOSE i \in m : \A j \in m : i <= j
             IN  [scs EXCEPT ![k] = rec]

\* mutant of designate_stable_channel: a selection that matches no channel
\* empties the list and saves it
designate_stable_channel_forgets_on_miss(app, chs, selected_channel_id, amount, checks) ==
    LET k == find_channel_by_text(chs, trim(selected_channel_id))
        rec == lsp_stable_channel(chs[k], amount.value,
                                  Bitcoin_from_usd(amount.value, app.btc_price),
                                  app.btc_price)
        scs == replace_or_push(app.stable_channels, rec)
        rejected(message) ==
            [ stable_channels |-> app.stable_channels, file |-> app.stable_channels_file,
              status_message |-> message, panic |-> FALSE, designated |-> FALSE ]
    IN  IF selected_channel_id = "" THEN rejected("Please select a channel ID")
        ELSE IF ~amount.ok THEN rejected("Invalid amount format")
        ELSE IF k = 0
             THEN [ stable_channels |-> <<>>, file |-> save_stable_channels(<<>>),
                    status_message |-> "No channel found matching",
                    panic |-> FALSE, designated |-> FALSE ]
        ELSE IF channel_balances(chs[k]).overflow /\ checks
             THEN [ stable_channels |-> app.stable_channels,
                    file |-> app.stable_channels_file,
                    status_message |-> "none",
                    panic |-> TRUE, designated |-> FALSE ]
        ELSE [ stable_channels |-> scs, file |-> save_stable_channels(scs),
               status_message |-> "Channel designated as stable",
               panic |-> FALSE, designated |-> TRUE ]

\* designate_stable_channel
designate_stable_channel(app, chs, selected_channel_id, amount, checks) ==
    LET k == find_channel_by_text(chs, trim(selected_channel_id))
        rec == lsp_stable_channel(chs[k], amount.value,
                                  Bitcoin_from_usd(amount.value, app.btc_price),
                                  app.btc_price)
        scs == replace_or_push(app.stable_channels, rec)
        rejected(message) ==
            [ stable_channels |-> app.stable_channels, file |-> app.stable_channels_file,
              status_message |-> message, panic |-> FALSE, designated |-> FALSE ]
    IN  IF selected_channel_id = "" THEN rejected("Please select a channel ID")
        ELSE IF ~amount.ok THEN rejected("Invalid amount format")
        ELSE IF k = 0 THEN rejected("No channel found matching")
        ELSE IF channel_balances(chs[k]).overflow /\ checks
             THEN [ stable_channels |-> app.stable_channels,
                    file |-> app.stable_channels_file,
                    status_message |-> "none",
                    panic |-> TRUE, designated |-> FALSE ]
        ELSE [ stable_channels |-> scs, file |-> save_stable_channels(scs),
               status_message |-> "Channel designated as stable",
               panic |-> FALSE, designated |-> TRUE ]

\* Event::ChannelClosed { channel_id, .. }
ChannelClosed(channel_id) == [ kind |-> "ChannelClosed", channel_id |-> channel_id ]

\* LspApp::update_balances: the price part (the displayed totals are not kept)
refreshed_price(btc, current_price) ==
    IF current_price > 0 THEN current_price ELSE btc

\* poll_events: every queued event is taken; the arm of ChannelClosed sets
\* the status message and calls update_balances
poll_events(app, evs, current_price) ==
    [ btc_price |-> IF \E i \in 1..Len(evs) : evs[i].kind = "ChannelClosed"
                    THEN refreshed_price(app.btc_price, current_price)
                    ELSE app.btc_price,
      stable_channels |-> app.stable_channels,
      stable_channels_file |-> app.stable_channels_file,
      status_message |-> IF evs = <<>> THEN "none" ELSE "Channel has been closed",
      events |-> <<>> ]

\* what the environment does during one run of the stability loop: the
\* result of the price fetches, the result of a send to each channel's peer,
\* and the channel, if any, that the runtime drops between channel_exists
\* and check_stability (the all-zero id: none)
LoopEnvs ==
    [ feed : { [ok |-> TRUE, price |-> 1998], [ok |-> FALSE, price |-> 0] },
      send_ok : [ChannelIds -> BOOLEAN],
      closed : {DefaultChannelId} \cup ChannelIds ]

without_channel(chs, channel_id) ==
    SelectSeq(chs, LAMBDA c : c.channel_id # channel_id)

\* the channel list at the turn of record i: without the dropped channel
\* once the turn of a record with that id has come
channels_at_turn(chs, scs, env, i) ==
    IF \E j \in 1..(i-1) : scs[j].channel_id = env.closed
    THEN without_channel(chs, env.closed) ELSE chs

\* what a turn of the loop leaves: r is the result of its check_stability
checked_pass(r) ==
    [ sc |-> r.sc, checked |-> TRUE, found |-> r.found, action |-> r.action,
      sends |-> r.sends, panic |-> r.panic ]

\* one turn of the loop of check_and_update_stable_channels
stability_pass(chs, rec, current_price, env, checks) ==
    IF ~channel_exists(chs, rec.channel_id)
    THEN [ sc |-> rec, checked |-> FALSE, found |-> FALSE, action |-> "none",
           sends |-> <<>>, panic |-> FALSE ]
    ELSE checked_pass(
             check_stability(IF env.closed = rec.channel_id
                             THEN without_channel(chs, rec.channel_id) ELSE chs,
                             [rec EXCEPT !.latest_price = current_price],
                             env.feed, env.send_ok[rec.channel_id], checks))

\* what the loop leaves, p[i] being the turn of record i: a panic ends the
\* loop, the sends are those of the turns in order
loop_result(scs, p) ==
    LET panics == { i \in 1..Len(scs) : p[i].panic }
        done == IF panics = {} THEN Len(scs)
                ELSE CHOOSE i \in panics : \A j \in panics : i <= j
        payers == { i \in 1..done : p[i].sends # <<>> }
        payer(k) == CHOOSE i \in payers : Cardinality({ j \in payers : j <= i }) = k
    IN  [ scs      |-> [ i \in 1..Len(scs) |-> IF i <= done THEN p[i].sc ELSE scs[i] ],
          passes   |-> [ i \in 1..done |->
                           [ channel_id |-> scs[i].channel_id, checked |-> p[i].checked,
                             found |-> p[i].found, action |-> p[i].action,
                             latest_price |-> p[i].sc.latest_price ] ],
          sends    |-> [ k \in 1..Cardinality(payers) |-> p[payer(k)].sends[1] ],
          panic    |-> panics # {},
          done     |-> done,
          channels_updated |->
              \E i \in 1..done : p[i].checked /\ p[i].sc.payment_made ]

\* the loop of check_and_update_stable_channels: the records in order, each
\* against the channel list of its turn
stability_passes(chs, scs, current_price, env, checks) ==
    loop_result(scs,
        [ i \in 1..Len(scs) |->
            stability_pass(channels_at_turn(chs, scs, env, i), scs[i], current_price,
                           env, checks) ])

\* what check_and_update_stable_channels leaves, r being the result of its
\* loop: btc_price follows a known price, the list is saved if a record that
\* was checked has payment_made
after_stability_passes(app, chs, current_price, env, r) ==
    [ btc_price |-> IF current_price > 0 THEN current_price ELSE app.btc_price,
      stable_channels |-> r.scs,
      file |-> IF r.channels_updated /\ ~r.panic
               THEN save_stable_channels(r.scs) ELSE app.stable_channels_file,
      passes |-> r.passes, sends |-> r.sends, panic |-> r.panic,
      channels |-> channels_at_turn(chs, app.stable_channels, env, r.done + 1) ]

\* check_and_update_stable_channels
check_and_update_stable_channels(app, chs, current_price, env, checks) ==
    after_stability_passes(app, chs, current_price, env,
        stability_passes(chs, app.stable_channels, current_price, env, checks))

----------------------------------------------------------------------------
(* Records and bookkeeping *)

\* a StableChannel with no balances yet (user.rs:226-243)
StableChannel(id, cp, receiver, expected, price, risk) ==
    [ channel_id |-> id, counterparty |-> cp, is_stable_receiver |-> receiver,
      expected_usd |-> expected, expected_btc |-> 0,
      stable_receiver_btc |-> 0, stable_receiver_usd |-> 0,
      stable_provider_btc |-> 0, stable_provider_usd |-> 0,
      latest_price |-> price, risk_level |-> risk, payment_made |-> FALSE ]

Outcome(op, found, action, value, amount, result) ==
    [ op |-> op, found |-> found, action |-> action, channel_value_sats |-> value,
      amount |-> amount, result |-> result, passes |-> <<>>, previous |-> "none",
      handled |-> <<>> ]

NoOutcome == Outcome("none", FALSE, "none", 0, 0, "none")

\* no event taken from the queue
NoEvent == [ kind |-> "none", channel_id |-> DefaultChannelId ]

\* the UI thread: the statement it is about to run (pc), the statement a
\* running check_stability returns to (ret), the event poll_events holds
Ui(pc, ret, event) == [ pc |-> pc, ret |-> ret, event |-> event ]

\* no user application
NoUi == Ui("none", "none", NoEvent)

----------------------------------------------------------------------------
(* Spec: the functions of stable.rs applied to one record, with the        *)
(* runtime's channel list and the record's price changing in between       *)

Init ==
    /\ channels \in ChannelLists
    /\ stable_channel \in
         { StableChannel(id, "lsp", r, e, p, k) :
             id \in {DefaultChannelId, 1}, r \in BOOLEAN, e \in ExpectedUsds,
             p \in CachedPrices, k \in RiskLevels }
    /\ cached_price = 0
    /\ stable_channels = <<>>
    /\ stable_channels_file = [exists |-> FALSE, entries |-> <<>>]
    /\ btc_price = 0
    /\ frames = 0
    /\ events = <<>>
    /\ ui = NoUi
    /\ sends = <<>>
    /\ last = NoOutcome
    /\ overflow_checks \in BOOLEAN
    /\ panicked = FALSE

\* the runtime opens, closes or rebalances channels
ChannelsChange ==
    /\ ~panicked
    /\ channels' \in ChannelLists \ {channels}
    /\ sends' = <<>>
    /\ last' = NoOutcome
    /\ UNCHANGED <<ui, cached_price, stable_channel, lsp_app, events,
                   overflow_checks, panicked>>

\* a caller stores a price in the record before a pass (user.rs:698, lsp.rs:188)
PriceStored ==
    /\ ~panicked
    /\ \E p \in CachedPrices \ {stable_channel.latest_price} :
           stable_channel' = [stable_channel EXCEPT !.latest_price = p]
    /\ sends' = <<>>
    /\ last' = NoOutcome
    /\ UNCHANGED <<ui, channels, cached_price, lsp_app, events,
                   overflow_checks, panicked>>

\* let (found, updated) = update_balances(node, sc); sc = updated
CallUpdateBalances ==
    /\ ~panicked
    /\ \E feed \in FeedResults :
         LET r == update_balances(channels, stable_channel, feed, overflow_checks)
         IN  /\ stable_channel' = r.sc
             /\ panicked' = r.panic
             /\ last' = Outcome("update_balances", r.found,
                                IF r.panic THEN "Panic" ELSE "none",
                                r.channel_value_sats, 0, "none")
    /\ sends' = <<>>
    /\ UNCHANGED <<ui, channels, cached_price, lsp_app, events, overflow_checks>>

\* check_stability(node, &mut sc)
CallCheckStability ==
    /\ ~panicked
    /\ \E feed \in FeedResults, send_ok \in BOOLEAN :
         LET r == check_stability(channels, stable_channel, feed, send_ok, overflow_checks)
         IN  /\ stable_channel' = r.sc
             /\ panicked' = r.panic
             /\ sends' = r.sends
             /\ last' = [ Outcome("check_stability", r.found, r.action,
                                  r.channel_value_sats, 0,
                                  IF r.sends = <<>> THEN "none"
                                  ELSE IF send_ok THEN "Ok" ELSE "SendFailed")
                          EXCEPT !.previous = IF last.op = "check_stability"
                                              THEN last.action ELSE "none" ]
    /\ UNCHANGED <<ui, channels, cached_price, lsp_app, events, overflow_checks>>

\* execute_payment(node, amount, &sc)
CallExecutePayment ==
    /\ ~panicked
    /\ \E amount \in AmountsMsat, send_ok \in BOOLEAN :
         LET r == execute_payment(channels, amount, stable_channel, send_ok)
         IN  /\ sends' = r.sends
             /\ last' = Outcome("execute_payment", FALSE, "none", 0, amount, r.result)
    /\ UNCHANGED <<ui, channels, cached_price, stable_channel, lsp_app, events,
                   overflow_checks, panicked>>

Next ==
    \/ ChannelsChange
    \/ PriceStored
    \/ CallUpdateBalances
    \/ CallCheckStability

Spec == Init /\ [][Next]_vars

----------------------------------------------------------------------------
(* SpecPay: execute_payment applied to a record and a channel list *)

InitPay ==
    /\ channels \in PaymentLists
    /\ stable_channel \in
         { StableChannel(id, "lsp", r, 19990000, 1998, 0) :
             id \in {DefaultChannelId} \cup ChannelIds, r \in BOOLEAN }
    /\ cached_price = 0
    /\ stable_channels = <<>>
    /\ stable_channels_file = [exists |-> FALSE, entries |-> <<>>]
    /\ btc_price = 0
    /\ frames = 0
    /\ events = <<>>
    /\ ui = NoUi
    /\ sends = <<>>
    /\ last = NoOutcome
    /\ overflow_checks \in BOOLEAN
    /\ panicked = FALSE

PaymentChannelsChange ==
    /\ ~panicked
    /\ channels' \in PaymentLists \ {channels}
    /\ sends' = <<>>
    /\ last' = NoOutcome
    /\ UNCHANGED <<ui, cached_price, stable_channel, lsp_app, events,
                   overflow_checks, panicked>>

NextPay ==
    \/ PaymentChannelsChange
    \/ CallExecutePayment

SpecPay == InitPay /\ [][NextPay]_vars

----------------------------------------------------------------------------
(* SpecLsp: the LSP application, from its construction on: the operator    *)
(* designates channels, the stability timer runs the loop over the         *)
(* records, the runtime changes the channel list and the price service     *)
(* its cache                                                               *)

\* files a run can have left behind
LspFiles ==
    { NoFile,
      [exists |-> TRUE, entries |-> <<>>],
      [exists |-> TRUE,
       entries |-> << [channel_id |-> "01", expected_usd |-> 19990000, native_btc |-> 10] >>] }

LspApp ==
    [ stable_channels |-> stable_channels, stable_channels_file |-> stable_channels_file,
      btc_price |-> btc_price ]

\* LspApp::new_with_mode("lsp"): btc_price from the cache, no records, then
\* load_stable_channels
InitLsp ==
    /\ channels \in LspChannelLists
    /\ cached_price \in CachedPrices
    /\ btc_price = cached_price
    /\ stable_channels_file \in LspFiles
    /\ overflow_checks \in BOOLEAN
    /\ LET r == load_stable_channels(stable_channels_file, channels, btc_price,
                                     overflow_checks)
       IN  /\ stable_channels = r.stable_channels
           /\ panicked = r.panic
    /\ stable_channel = StableChannel(DefaultChannelId, "peer", FALSE, 0, 0, 0)
    /\ frames = 0
    /\ events = <<>>
    /\ ui = NoUi
    /\ sends = <<>>
    /\ last = NoOutcome

\* the runtime opens, closes or rebalances channels
LspChannelsChange ==
    /\ ~panicked
    /\ channels' \in LspChannelLists \ {channels}
    /\ sends' = <<>>
    /\ last' = NoOutcome
    /\ UNCHANGED <<ui, cached_price, stable_channel, lsp_app, events, overflow_checks, panicked>>

\* the price service stores a fetched price in its cache
PriceCacheUpdate ==
    /\ ~panicked
    /\ cached_price' \in Prices \ {cached_price}
    /\ sends' = <<>>
    /\ last' = NoOutcome
    /\ UNCHANGED <<ui, channels, stable_channel, lsp_app, events, overflow_checks, panicked>>

\* update(): the 30 s balance timer (lsp.rs:824-831) and LspApp::update_balances
BalanceTimer ==
    /\ ~panicked
    /\ frames < MaxFrames
    /\ frames' = frames + 1
    /\ btc_price' = IF cached_price > 0 THEN cached_price ELSE btc_price
    /\ sends' = <<>>
    /\ last' = Outcome("LspApp::update_balances", FALSE, "none", 0, 0, "none")
    /\ UNCHANGED <<ui, channels, cached_price, stable_channel, stable_channels,
                   stable_channels_file, events, overflow_checks, panicked>>

\* the runtime closes a live channel and queues Event::ChannelClosed
ChannelCloses ==
    /\ ~panicked
    /\ Len(events) < MaxEvents
    /\ \E i \in 1..Len(channels) :
         /\ channels' = without_channel(channels, channels[i].channel_id)
         /\ events' = Append(events, ChannelClosed(channels[i].channel_id))
    /\ sends' = <<>>
    /\ last' = NoOutcome
    /\ UNCHANGED <<ui, cached_price, stable_channel, lsp_app, overflow_checks, panicked>>

\* update(): poll_events (lsp.rs:822) with events in the queue
PollEvents ==
    /\ ~panicked
    /\ events # <<>>
    /\ frames < MaxFrames
    /\ frames' = frames + 1
    /\ LET r == poll_events(LspApp, events, cached_price)
       IN  /\ btc_price' = r.btc_price
           /\ stable_channels' = r.stable_channels
           /\ stable_channels_file' = r.stable_channels_file
           /\ events' = r.events
           /\ last' = [ Outcome("poll_events", FALSE, "none", 0, 0, r.status_message)
                        EXCEPT !.handled = events ]
    /\ sends' = <<>>
    /\ UNCHANGED <<ui, channels, cached_price, stable_channel, overflow_checks, panicked>>

\* the operator presses "Designate as Stable" (lsp.rs:679-681)
OperatorDesignates ==
    /\ ~panicked
    /\ frames < MaxFrames
    /\ frames' = frames + 1
    /\ \E selected_channel_id \in SelectedChannelIds, amount \in StableChannelAmounts :
         LET r == designate_stable_channel(LspApp, channels, selected_channel_id, amount,
                                           overflow_checks)
         IN  /\ stable_channels' = r.stable_channels
             /\ stable_channels_file' = r.file
             /\ panicked' = r.panic
             /\ last' = Outcome("designate_stable_channel", r.designated,
                                IF r.panic THEN "Panic" ELSE "none", 0,
                                amount.value, r.status_message)
    /\ sends' = <<>>
    /\ UNCHANGED <<ui, channels, cached_price, stable_channel, btc_price, events,
                   overflow_checks>>

\* the state after a run r of check_and_update_stable_channels
StabilityTimerDone(r) ==
    /\ btc_price' = r.btc_price
    /\ stable_channels' = r.stable_channels
    /\ stable_channels_file' = r.file
    /\ channels' = r.channels
    /\ sends' = r.sends
    /\ panicked' = r.panic
    /\ last' = [ Outcome("check_and_update_stable_channels", FALSE,
                         IF r.panic THEN "Panic" ELSE "none", 0, 0, "none")
                 EXCEPT !.passes = r.passes ]

\* update(): the 30 s stability timer (lsp.rs:833-836)
StabilityTimer ==
    /\ ~panicked
    /\ frames < MaxFrames
    /\ frames' = frames + 1
    /\ \E env \in LoopEnvs :
         StabilityTimerDone(
             check_and_update_stable_channels(LspApp, channels, cached_price, env,
                                              overflow_checks))
    /\ UNCHANGED <<ui, cached_price, stable_channel, events, overflow_checks>>

NextLsp ==
    \/ LspChannelsChange
    \/ PriceCacheUpdate
    \/ BalanceTimer
    \/ OperatorDesignates
    \/ StabilityTimer

SpecLsp == InitLsp /\ [][NextLsp]_vars

\* SpecLsp with the runtime closing channels and the application polling
\* the events the closures queue
NextLspEvents ==
    \/ LspChannelsChange
    \/ PriceCacheUpdate
    \/ BalanceTimer
    \/ OperatorDesignates
    \/ StabilityTimer
    \/ ChannelCloses
    \/ PollEvents

SpecLspEvents == InitLsp /\ [][NextLspEvents]_vars

----------------------------------------------------------------------------
(* SpecUser: the user application (user.rs). UserApp::new builds the       *)
(* record and runs a first check_stability; every update() polls the       *)
(* runtime's events and then tests the stability timer. The runtime        *)
(* changes the channel list and queues events at any moment.               *)

\* EXPECTED_USD (15.0 dollars), on the model's grid: ten sats at price 1998
\* and 0.05% more
EXPECTED_USD == 19990000

\* channel lists of the user's node: none; channel 1 with the user's side
\* at 1, 10, 19 and 21 of 20 sats; channel 2 opened before channel 1
UserChannelLists ==
    { <<>>,
      <<ChannelDetails(1, "lsp", 20, 999, 1, TRUE)>>,
      <<Channel1Half>>,
      <<ChannelDetails(1, "lsp", 20, 18000, 1, TRUE)>>,
      <<ChannelDetails(1, "lsp", 20, 20000, 1, TRUE)>>,
      <<Channel2Snapshot, Channel1Half>> }

\* the kinds of Event the runtime queues: three with an arm in poll_events
\* and one that falls to the `_` arm
EventKinds == {"ChannelReady", "PaymentReceived", "ChannelClosed", "PaymentSuccessful"}

\* the StableChannel literal of UserApp::new built from the first channel,
\* with the balance lines before it
user_stable_channel_from(channel, expected_usd, price) ==
    LET bal == channel_balances(channel)
        stable_provider_usd == USD_from_bitcoin(bal.their, price)
    IN  [ channel_id |-> channel.channel_id,
          counterparty |-> "lsp",
          is_stable_receiver |-> TRUE,
          expected_usd |-> expected_usd,
          expected_btc |-> Bitcoin_from_usd(expected_usd, price),
          stable_receiver_btc |-> bal.our,
          stable_receiver_usd |-> USD_from_bitcoin(bal.our, price),
          stable_provider_btc |-> Bitcoin_from_usd(stable_provider_usd, price),
          stable_provider_usd |-> stable_provider_usd,
          latest_price |-> price, risk_level |-> 0, payment_made |-> FALSE ]

\* UserApp::new up to the first check_stability: the price fetch must
\* succeed, the record is built from the first channel or left empty
user_new(chs, feed, checks) ==
    IF ~feed.ok
    THEN [ sc |-> StableChannel(DefaultChannelId, "lsp", TRUE, EXPECTED_USD, 0, 0),
           btc_price |-> 0, panic |-> TRUE ]
    ELSE IF chs = <<>>
    THEN [ sc |-> StableChannel(DefaultChannelId, "lsp", TRUE, EXPECTED_USD, feed.price, 0),
           btc_price |-> feed.price, panic |-> FALSE ]
    ELSE IF channel_balances(chs[1]).overflow /\ checks
    THEN [ sc |-> StableChannel(DefaultChannelId, "lsp", TRUE, EXPECTED_USD, feed.price, 0),
           btc_price |-> feed.price, panic |-> TRUE ]
    ELSE [ sc |-> user_stable_channel_from(chs[1], EXPECTED_USD, feed.price),
           btc_price |-> feed.price, panic |-> FALSE ]

\* check_stability up to its decision: update_balances on a clone, the copy
\* back on success, the action
decided(sc, ub) ==
    [ sc |-> IF ub.panic THEN sc ELSE IF ub.found THEN ub.sc ELSE sc,
      action |-> IF ub.panic THEN "Panic"
                 ELSE stability_action(IF ub.found THEN ub.sc ELSE sc),
      found |-> ub.found, panic |-> ub.panic,
      channel_value_sats |-> ub.channel_value_sats ]

reconcile_and_decide(chs, sc, feed, checks) ==
    decided(sc, update_balances(chs, sc, feed, checks))

InitUser ==
    /\ channels \in UserChannelLists
    /\ overflow_checks \in BOOLEAN
    /\ \E feed \in FeedResults :
         LET r == user_new(channels, feed, overflow_checks)
         IN  /\ stable_channel = r.sc
             /\ btc_price = r.btc_price
             /\ panicked = r.panic
             /\ ui = IF r.panic THEN NoUi
                     ELSE Ui("update_balances", "frame", NoEvent)
    /\ cached_price = 0
    /\ stable_channels = <<>>
    /\ stable_channels_file = NoFile
    /\ events = <<>>
    /\ frames = 0
    /\ sends = <<>>
    /\ last = NoOutcome

\* the runtime opens, closes or rebalances channels of the user's node
UserChannelsChange ==
    /\ ~panicked
    /\ channels' \in UserChannelLists \ {channels}
    /\ UNCHANGED <<ui, cached_price, stable_channel, lsp_app, events, sends, last,
                   overflow_checks, panicked>>

\* the runtime queues an event
RuntimeQueuesEvent ==
    /\ ~panicked
    /\ Len(events) < MaxEvents
    /\ \E kind \in EventKinds :
         events' = Append(events, [kind |-> kind, channel_id |-> 1])
    /\ UNCHANGED <<ui, channels, cached_price, stable_channel, lsp_app, sends, last,
                   overflow_checks, panicked>>

\* eframe calls update(): poll_events is entered
UserUpdate ==
    /\ ~panicked
    /\ ui.pc = "frame"
    /\ frames < MaxFrames
    /\ frames' = frames + 1
    /\ ui' = Ui("next_event", "none", NoEvent)
    /\ sends' = <<>>
    /\ last' = NoOutcome
    /\ UNCHANGED <<channels, cached_price, stable_channel, stable_channels,
                   stable_channels_file, btc_price, events, overflow_checks, panicked>>

\* poll_events: `while let Some(event) = self.node.next_event()`; the head of
\* the queue is returned and stays queued until event_handled
UserNextEvent ==
    /\ ~panicked
    /\ ui.pc = "next_event"
    /\ ui' = IF events = <<>> THEN Ui("timer", "none", NoEvent)
             ELSE Ui("handler", "none", Head(events))
    /\ UNCHANGED <<channels, cached_price, stable_channel, lsp_app, events, sends, last,
                   overflow_checks, panicked>>

\* mutant of UserHandler: an event without an arm of its own is not
\* acknowledged
UserHandler_skips_ignored ==
    /\ ~panicked
    /\ ui.pc = "handler"
    /\ ui' = IF ui.event.kind = "PaymentReceived"
             THEN Ui("update_balances", "event_handled", ui.event)
             ELSE IF ui.event.kind = "PaymentSuccessful"
             THEN Ui("next_event", "none", NoEvent)
             ELSE Ui("event_handled", "none", ui.event)
    /\ sends' = <<>>
    /\ last' = NoOutcome
    /\ UNCHANGED <<channels, cached_price, stable_channel, lsp_app, events,
                   overflow_checks, panicked>>

\* poll_events: the match on the event; only the PaymentReceived arm calls
\* check_stability
UserHandler ==
    /\ ~panicked
    /\ ui.pc = "handler"
    /\ ui' = IF ui.event.kind = "PaymentReceived"
             THEN Ui("update_balances", "event_handled", ui.event)
             ELSE Ui("event_handled", "none", ui.event)
    /\ sends' = <<>>
    /\ last' = NoOutcome
    /\ UNCHANGED <<channels, cached_price, stable_channel, lsp_app, events,
                   overflow_checks, panicked>>

\* poll_events: self.node.event_handled() drops the head of the queue
UserEventHandled ==
    /\ ~panicked
    /\ ui.pc = "event_handled"
    /\ events' = Tail(events)
    /\ ui' = Ui("next_event", "none", NoEvent)
    /\ UNCHANGED <<channels, cached_price, stable_channel, lsp_app, sends, last,
                   overflow_checks, panicked>>

\* mutant of UserTimer: the timer also fires while a pass is about to send
UserTimer_preempts ==
    /\ ~panicked
    /\ ui.pc \in {"timer", "send"}
    /\ \E elapsed \in BOOLEAN, feed \in FeedResults :
         IF elapsed /\ feed.ok
         THEN /\ btc_price' = feed.price
              /\ stable_channel' = [stable_channel EXCEPT !.latest_price = feed.price]
              /\ ui' = Ui("update_balances", "frame", NoEvent)
         ELSE /\ ui' = Ui("frame", "none", NoEvent)
              /\ UNCHANGED <<btc_price, stable_channel>>
    /\ sends' = <<>>
    /\ last' = NoOutcome
    /\ UNCHANGED <<channels, cached_price, stable_channels, stable_channels_file,
                   events, frames, overflow_checks, panicked>>

\* update(): the stability timer; on a fetched price the price is stored
\* and check_stability is called
UserTimer ==
    /\ ~panicked
    /\ ui.pc = "timer"
    /\ \E elapsed \in BOOLEAN, feed \in FeedResults :
         IF elapsed /\ feed.ok
         THEN /\ btc_price' = feed.price
              /\ stable_channel' = [stable_channel EXCEPT !.latest_price = feed.price]
              /\ ui' = Ui("update_balances", "frame", NoEvent)
         ELSE /\ ui' = Ui("frame", "none", NoEvent)
              /\ UNCHANGED <<btc_price, stable_channel>>
    /\ sends' = <<>>
    /\ last' = NoOutcome
    /\ UNCHANGED <<channels, cached_price, stable_channels, stable_channels_file,
                   events, frames, overflow_checks, panicked>>

\* the state after the first part r of a check_stability of the user
UserPassDecided(r) ==
    /\ stable_channel' = r.sc
    /\ panicked' = r.panic
    /\ ui' = IF r.panic THEN ui
             ELSE IF r.action = "Pay" THEN Ui("send", ui.ret, ui.event)
             ELSE Ui(ui.ret, "none", ui.event)
    /\ sends' = <<>>
    /\ last' = Outcome("UserApp::check_stability", r.found, r.action,
                       r.channel_value_sats, 0, "none")

\* check_stability of the user's record, up to the decision
UserPassReconciles ==
    /\ ~panicked
    /\ ui.pc = "update_balances"
    /\ \E feed \in FeedResults :
         UserPassDecided(reconcile_and_decide(channels, stable_channel, feed,
                                              overflow_checks))
    /\ UNCHANGED <<channels, cached_price, lsp_app, events, overflow_checks>>

\* mutant of UserPassSends: the pass may send once more before it returns
UserPassSends_retries ==
    /\ ~panicked
    /\ ui.pc = "send"
    /\ \E send_ok \in BOOLEAN :
         LET paid == pay_the_difference(stable_channel, send_ok)
         IN  /\ stable_channel' = paid.sc
             /\ sends' = sends \o paid.sends
             /\ last' = [last EXCEPT !.result = IF send_ok THEN "Ok" ELSE "SendFailed"]
    /\ ui' \in { Ui(ui.ret, "none", ui.event) } \cup (IF Len(sends) < 2 THEN {ui} ELSE {})
    /\ UNCHANGED <<channels, cached_price, lsp_app, events, overflow_checks, panicked>>

\* check_stability of the user's record: the Pay arm
UserPassSends ==
    /\ ~panicked
    /\ ui.pc = "send"
    /\ \E send_ok \in BOOLEAN :
         LET paid == pay_the_difference(stable_channel, send_ok)
         IN  /\ stable_channel' = paid.sc
             /\ sends' = paid.sends
             /\ last' = [last EXCEPT !.result = IF send_ok THEN "Ok" ELSE "SendFailed"]
    /\ ui' = Ui(ui.ret, "none", ui.event)
    /\ UNCHANGED <<channels, cached_price, lsp_app, events, overflow_checks, panicked>>

NextUser ==
    \/ UserChannelsChange
    \/ RuntimeQueuesEvent
    \/ UserUpdate
    \/ UserNextEvent
    \/ UserHandler
    \/ UserEventHandled
    \/ UserTimer
    \/ UserPassReconciles
    \/ UserPassSends

SpecUser == InitUser /\ [][NextUser]_vars

----------------------------------------------------------------------------
(* SpecEnds: the two ends of one channel. The user's application holds the *)
(* receiver's record of the channel and the LSP's application the          *)
(* provider's record, designated at the same target; each end runs its     *)
(* timer pass against its own view of the channel, and a payment the       *)
(* runtime accepts settles in full before the next pass.                   *)

\* rates of the two-ended model: at 2 the target EXPECTED_USD is worth 9995
\* sats and its dead-band about ten sats, at 4 half of that, at 70 the target
\* is worth some 285.6 sats and its dead-band less than a third of a sat
EndsPrices == {2, 4, 70}

\* the user's view of the channel when its balance is balance_msat: capacity
\* 20000 sats, a reserve of 200 sats on either side
EndsChannel(balance_msat) ==
    ChannelDetails(1, "lsp", 20000, balance_msat - 200000, 200, TRUE)

\* balances of the user: at the target of either rate, half a sat under the
\* edge of the dead-band, above the target, below the target
EndsChannelLists ==
    { <<EndsChannel(b)>> : b \in {9995000, 4997500, 10004500, 12000000, 3000750} }

\* the LSP's view of the channel the user sees as channel: the rest of the
\* capacity, less the LSP's reserve, is the LSP's outbound capacity
lsp_view(channel) ==
    LET balance_msat == channel.outbound_capacity_msat
                        + channel.unspendable_punishment_reserve * MsatPerSat
        rest_msat == channel.channel_value_sats * MsatPerSat - balance_msat
    IN  ChannelDetails(channel.channel_id, "peer", channel.channel_value_sats,
                       rest_msat - channel.unspendable_punishment_reserve * MsatPerSat,
                       channel.unspendable_punishment_reserve, TRUE)

\* the amount a pass on rec against the channel list view would send, 0 if
\* it would not send
amount_due(view, rec, checks) ==
    LET r == check_stability(view, rec, [ok |-> TRUE, price |-> rec.latest_price],
                             FALSE, checks)
    IN  IF r.sends = <<>> THEN 0 ELSE r.sends[1].amount

\* the runtime accepts a send of amount over the channel: the amount is
\* positive and within the sender's outbound capacity
sendable(view, amount) ==
    /\ amount > 0
    /\ view # <<>>
    /\ amount <= view[1].outbound_capacity_msat

\* the user's view after amount_msat has moved to the user (from the user
\* when negative)
after_payment(channel, amount_msat) ==
    [channel EXCEPT !.outbound_capacity_msat = @ + amount_msat]

InitEnds ==
    /\ channels \in EndsChannelLists
    /\ cached_price \in EndsPrices
    /\ btc_price = cached_price
    /\ overflow_checks \in BOOLEAN
    /\ stable_channel = user_new(channels, [ok |-> TRUE, price |-> cached_price],
                                 overflow_checks).sc
    /\ stable_channels =
           << lsp_stable_channel(lsp_view(channels[1]), EXPECTED_USD,
                                 Bitcoin_from_usd(EXPECTED_USD, cached_price),
                                 cached_price) >>
    /\ stable_channels_file = save_stable_channels(stable_channels)
    /\ events = <<>>
    /\ ui = NoUi
    /\ frames = 0
    /\ sends = <<>>
    /\ panicked = FALSE
    /\ last = NoOutcome

\* payments other than those of the passes move the balance
EndsBalanceChanges ==
    /\ channels' \in EndsChannelLists \ {channels}
    /\ sends' = <<>>
    /\ last' = NoOutcome
    /\ UNCHANGED <<ui, cached_price, stable_channel, lsp_app, events, overflow_checks,
                   panicked>>

\* the market moves: the feed and the cache deliver another rate
EndsRateChanges ==
    /\ cached_price' \in EndsPrices \ {cached_price}
    /\ sends' = <<>>
    /\ last' = NoOutcome
    /\ UNCHANGED <<ui, channels, stable_channel, lsp_app, events, overflow_checks,
                   panicked>>

\* what a pass of one end leaves in last: its decision, and the decision of
\* the other end if that end's pass came just before
EndsOutcome(op, action, amount, sent, accepted) ==
    [ Outcome(op, TRUE, action, 0, amount,
              IF ~sent THEN "none" ELSE IF accepted THEN "Ok" ELSE "SendFailed")
      EXCEPT !.previous = IF last.op \notin {"none", op} THEN last.action ELSE "none" ]

\* the state after the user's pass r, whose send the runtime accepted or not
UserEndDone(r, accepted) ==
    /\ stable_channel' = r.sc
    /\ sends' = r.sends
    /\ panicked' = (panicked \/ r.panic)
    /\ channels' = IF accepted
                   THEN <<after_payment(channels[1], 0 - r.sends[1].amount)>>
                   ELSE channels
    /\ last' = EndsOutcome("UserApp::update", r.action,
                           IF r.sends = <<>> THEN 0 ELSE r.sends[1].amount,
                           r.sends # <<>>, accepted)

\* the user's timer (user.rs:695-703) with a fetched price
UserEndPass ==
    /\ frames < MaxFrames
    /\ frames' = frames + 1
    /\ btc_price' = cached_price
    /\ \E willing \in BOOLEAN :
         LET rec == [stable_channel EXCEPT !.latest_price = cached_price]
             accepted == willing /\ sendable(channels,
                                             amount_due(channels, rec, overflow_checks))
         IN  UserEndDone(check_stability(channels, rec,
                                         [ok |-> TRUE, price |-> cached_price],
                                         accepted, overflow_checks),
                         accepted)
    /\ UNCHANGED <<ui, cached_price, stable_channels, stable_channels_file, events,
                   overflow_checks>>

\* the state after the run r of the LSP's loop, whose send the runtime
\* accepted or not
LspEndDone(r, accepted) ==
    /\ btc_price' = r.btc_price
    /\ stable_channels' = r.stable_channels
    /\ stable_channels_file' = r.file
    /\ sends' = r.sends
    /\ panicked' = (panicked \/ r.panic)
    /\ channels' = IF accepted
                   THEN <<after_payment(channels[1], r.sends[1].amount)>>
                   ELSE channels
    /\ last' = EndsOutcome("LspApp::update", r.passes[1].action,
                           IF r.sends = <<>> THEN 0 ELSE r.sends[1].amount,
                           r.sends # <<>>, accepted)

\* the LSP's stability timer (lsp.rs:833-836)
LspEndPass ==
    /\ frames < MaxFrames
    /\ frames' = frames + 1
    /\ \E willing \in BOOLEAN :
         LET view == <<lsp_view(channels[1])>>
             rec == [stable_channels[1] EXCEPT !.latest_price = cached_price]
             accepted == willing /\ sendable(view, amount_due(view, rec, overflow_checks))
         IN  LspEndDone(
                 check_and_update_stable_channels(
                     LspApp, view, cached_price,
                     [ feed |-> [ok |-> TRUE, price |-> cached_price],
                       send_ok |-> [c \in ChannelIds |-> accepted],
                       closed |-> DefaultChannelId ],
                     overflow_checks),
                 accepted)
    /\ UNCHANGED <<ui, cached_price, stable_channel, events, overflow_checks>>

\* what the user's pass would decide in the current state, its send refused
UserEndDecision ==
    check_stability(channels, [stable_channel EXCEPT !.latest_price = cached_price],
                    [ok |-> TRUE, price |-> cached_price], FALSE, overflow_checks)

\* what the LSP's turn for the channel would decide in the current state, its
\* send refused
LspEndDecision ==
    stability_pass(<<lsp_view(channels[1])>>, stable_channels[1], cached_price,
                   [ feed |-> [ok |-> TRUE, price |-> cached_price],
                     send_ok |-> [c \in ChannelIds |-> FALSE],
                     closed |-> DefaultChannelId ],
                   overflow_checks)

NextEnds ==
    \/ EndsBalanceChanges
    \/ EndsRateChanges
    \/ UserEndPass
    \/ LspEndPass

SpecEnds == InitEnds /\ [][NextEnds]_vars

----------------------------------------------------------------------------
(* Vocabulary of the properties *)

sc == stable_channel

Reconciled == last.op \in {"update_balances", "check_stability"} /\ last.found /\ ~panicked

Checked == last.op = "check_stability" /\ ~panicked

deviation_fiat == sc.stable_receiver_usd - sc.expected_usd

\* deviation_pct = |deviation_fiat| / expected_fiat * 100 compared with 0.1,
\* for a positive target: |d| * 1000 against e, by quotient and remainder
DeviationPctBelowThreshold ==
    /\ sc.expected_usd > 0
    /\ \/ Abs(deviation_fiat) < sc.expected_usd \div 1000
       \/ /\ Abs(deviation_fiat) = sc.expected_usd \div 1000
          /\ sc.expected_usd % 1000 > 0

DeviationPctIsThreshold ==
    /\ sc.expected_usd > 0
    /\ sc.expected_usd % 1000 = 0
    /\ Abs(deviation_fiat) = sc.expected_usd \div 1000

DeviationPctAtLeastThreshold == ~DeviationPctBelowThreshold

NoPayment == sends = <<>>

----------------------------------------------------------------------------
(* C1: after every successful reconciliation (update_balances found the    *)
(* channel), receiver_native + provider_native equals the capacity of the  *)
(* channel used, for both roles and every snapshot.                        *)
C1_Conservation ==
    Reconciled =>
        sc.stable_receiver_btc + sc.stable_provider_btc = last.channel_value_sats

(* C2: for a stable receiver with risk_level <= 100 and deviation_pct >=   *)
(* 0.1: receiver below target => Wait and no payment; receiver above       *)
(* target => Pay(amount) with amount > 0.                                  *)
C2_ReceiverDirection ==
    (Checked /\ sc.is_stable_receiver /\ sc.risk_level <= 100
             /\ DeviationPctAtLeastThreshold) =>
        /\ sc.stable_receiver_usd < sc.expected_usd =>
               (last.action = "Wait" /\ NoPayment)
        /\ sc.stable_receiver_usd > sc.expected_usd =>
               (last.action = "Pay" /\ Len(sends) = 1 /\ sends[1].amount > 0)

(* C3: for a stable provider with risk_level <= 100 and deviation_pct >=   *)
(* 0.1: receiver not below target => Wait and no payment; receiver below   *)
(* target => Pay, sent to the record's counterparty.                       *)
C3_ProviderDirection ==
    (Checked /\ ~sc.is_stable_receiver /\ sc.risk_level <= 100
             /\ DeviationPctAtLeastThreshold) =>
        /\ sc.stable_receiver_usd >= sc.expected_usd =>
               (last.action = "Wait" /\ NoPayment)
        /\ sc.stable_receiver_usd < sc.expected_usd =>
               (last.action = "Pay" /\ Len(sends) = 1
                /\ sends[1].destination = sc.counterparty)

C3_Witness ==
    /\ Checked /\ ~sc.is_stable_receiver /\ sc.risk_level <= 100
    /\ DeviationPctAtLeastThreshold
    /\ sc.stable_receiver_usd < sc.expected_usd
    /\ last.found
    /\ last.action = "Pay"

(* C4: whenever a pass decides Pay, the amount handed to send is           *)
(* |receiver_fiat - expected_fiat| converted at latest_rate to msat and    *)
(* rounded toward zero: amount * rate <= |deviation| < (amount + 1) * rate *)
C4_PayAmount ==
    (Checked /\ last.action = "Pay") =>
        /\ Len(sends) = 1
        /\ sends[1].amount * sc.latest_price <= Abs(deviation_fiat)
        /\ Abs(deviation_fiat) < (sends[1].amount + 1) * sc.latest_price

(* C5: deviation_pct < 0.1 => Stable and no payment, for either role and   *)
(* any risk_level; at deviation_pct = 0.1 exactly the pass is not Stable.  *)
C5_DeadBand ==
    Checked =>
        /\ DeviationPctBelowThreshold => (last.action = "DoNothing" /\ NoPayment)
        /\ DeviationPctIsThreshold => last.action # "DoNothing"

C5_Witness ==
    /\ Checked /\ DeviationPctBelowThreshold
    /\ deviation_fiat # 0
    /\ sc.risk_level > 100
    /\ last.action = "DoNothing"

(* C6 as claimed: risk_level > 100 => the decision is Suspended and no     *)
(* payment is sent, for any deviation magnitude.                           *)
C6_RiskGate_Original ==
    (Checked /\ sc.risk_level > 100) => (last.action = "HighRisk" /\ NoPayment)

(* C6 amended: risk_level > 100 => no payment is sent; the decision is     *)
(* Stable inside the dead-band and Suspended outside it.                   *)
C6_RiskGate ==
    (Checked /\ sc.risk_level > 100) =>
        /\ NoPayment
        /\ last.action = (IF DeviationPctBelowThreshold THEN "DoNothing" ELSE "HighRisk")

C6_Witness ==
    /\ Checked /\ sc.risk_level > 100
    /\ ~sc.is_stable_receiver
    /\ sc.stable_receiver_usd < sc.expected_usd
    /\ last.action = "HighRisk"

(* C7: execute_payment called with amount 0 returns the zero-amount error  *)
(* and makes no send, whatever the channel list (missing channel, channel  *)
(* not ready, other counterparty): the zero check comes first.             *)
C7_ZeroAmount ==
    (last.op = "execute_payment" /\ last.amount = 0) =>
        (last.result = "ZeroAmount" /\ NoPayment)

C7_Witness ==
    /\ last.op = "execute_payment" /\ last.amount = 0
    /\ ~channel_exists(channels, sc.channel_id)
    /\ last.result = "ZeroAmount"

\* the live channels carrying the record's channel_id
LiveChannels == { channels[i] : i \in { k \in 1..Len(channels) :
                                           channels[k].channel_id = sc.channel_id } }

SendPreconditions ==
    /\ last.amount > 0
    /\ \E c \in LiveChannels :
          /\ c.is_channel_ready
          /\ c.outbound_capacity_msat >= last.amount
          /\ c.counterparty_node_id = sc.counterparty

ExecutePaymentContract ==
    last.op = "execute_payment" =>
        /\ (sends # <<>>) <=> SendPreconditions
        /\ sends # <<>> =>
               sends = << [amount |-> last.amount, destination |-> sc.counterparty] >>
        /\ SendPreconditions <=> last.result \in {"Ok", "SendFailed"}
        /\ ~SendPreconditions =>
               last.result \in {"ZeroAmount", "ChannelNotFound", "ChannelNotReady",
                                "InsufficientCapacity", "CounterpartyMismatch"}
        /\ last.result = "ZeroAmount" => last.amount = 0
        /\ last.result = "ChannelNotFound" => LiveChannels = {}
        /\ last.result = "ChannelNotReady" =>
               \E c \in LiveChannels : ~c.is_channel_ready
        /\ last.result = "InsufficientCapacity" =>
               \E c \in LiveChannels : c.outbound_capacity_msat < last.amount
        /\ last.result = "CounterpartyMismatch" =>
               \E c \in LiveChannels : c.counterparty_node_id # sc.counterparty

(* C8: execute_payment calls send only if amount > 0, a live channel with  *)
(* the record's id exists, it is ready, its outbound capacity is >= the    *)
(* amount and its counterparty is the record's; otherwise it returns the   *)
(* error of a precondition that fails, makes no send, and in every case    *)
(* leaves the record as it was.                                            *)
C8_ExecutePayment ==
    [][ last'.op = "execute_payment" =>
            (stable_channel' = stable_channel /\ ExecutePaymentContract') ]_vars

C8_Witness ==
    /\ last.op = "execute_payment"
    /\ last.result = "Ok"
    /\ \E c \in LiveChannels : c.outbound_capacity_msat = last.amount
    /\ Len(sends) = 1

\* no live channel for the record: none with its id, or none at all while
\* the id is unset
NoLiveChannel(chs, channel_id) ==
    IF channel_id = DefaultChannelId
    THEN chs = <<>>
    ELSE \A i \in 1..Len(chs) : chs[i].channel_id # channel_id

(* C9: a pass that finds no live channel for the record leaves             *)
(* receiver_native, provider_native, receiver_fiat, provider_fiat and      *)
(* channel_id as they were.                                                *)
C9_NotFoundKeepsBalances ==
    [][ ( /\ last'.op \in {"update_balances", "check_stability"}
          /\ NoLiveChannel(channels, stable_channel.channel_id) ) =>
            /\ ~last'.found
            /\ stable_channel'.stable_receiver_btc = stable_channel.stable_receiver_btc
            /\ stable_channel'.stable_provider_btc = stable_channel.stable_provider_btc
            /\ stable_channel'.stable_receiver_usd = stable_channel.stable_receiver_usd
            /\ stable_channel'.stable_provider_usd = stable_channel.stable_provider_usd
            /\ stable_channel'.channel_id = stable_channel.channel_id ]_vars

C9_Witness ==
    /\ last.op = "check_stability" /\ ~last.found
    /\ NoLiveChannel(channels, sc.channel_id)
    /\ sc.channel_id # DefaultChannelId
    /\ sc.stable_receiver_btc > 0
    /\ sc.stable_provider_btc > 0

\* the balances of the LSP's records
lsp_balances(scs) ==
    [ i \in 1..Len(scs) |->
        << scs[i].stable_receiver_btc, scs[i].stable_provider_btc,
           scs[i].stable_receiver_usd, scs[i].stable_provider_usd >> ]

(* C10: when the cached rate is 0 at a run of the stability loop, the      *)
(* whole pass is skipped: no record is reconciled or decided on, nothing   *)
(* is sent, and the records' balances stay as they were.                   *)
C10_NoRateNoPass ==
    [][ ( /\ last'.op = "check_and_update_stable_channels"
          /\ cached_price = 0 ) =>
            /\ \A i \in 1..Len(last'.passes) : ~last'.passes[i].checked
            /\ sends' = <<>>
            /\ lsp_balances(stable_channels') = lsp_balances(stable_channels) ]_vars

(* C11: for a record with expected_fiat = 0 a pass decides neither Pay nor  *)
(* Wait nor Stable and sends no payment, whatever the receiver balance,    *)
(* the role and the rate.                                                  *)
C11_ZeroTarget ==
    (Checked /\ sc.expected_usd = 0) =>
        /\ last.action \notin {"Pay", "Wait", "DoNothing"}
        /\ NoPayment

(* C12: a pass sets payment_made exactly when its send returns success:    *)
(* after a pass the flag is true iff it was true before or the send of     *)
(* the pass succeeded; a failed send and a pass that decides Stable, Wait  *)
(* or Suspended leave it unchanged, and no pass sets it back to false.     *)
C12_PaymentMade ==
    [][ last'.op = "check_stability" =>
            stable_channel'.payment_made =
                (stable_channel.payment_made \/ last'.result = "Ok") ]_vars

C12_Witness ==
    /\ Checked /\ last.action = "Pay" /\ last.result = "SendFailed"
    /\ sc.payment_made

(* C13: a pass changes channel_id only from the all-zero sentinel to the   *)
(* id of the live channel it adopts (the first of the list); a record      *)
(* with another id keeps it, also when its channel is gone and other       *)
(* channels are listed.  So the id changes at most once.                   *)
C13_ChannelIdBoundOnce ==
    [][ last'.op \in {"update_balances", "check_stability"} =>
            \/ stable_channel'.channel_id = stable_channel.channel_id
            \/ /\ stable_channel.channel_id = DefaultChannelId
               /\ last'.found
               /\ channels # <<>>
               /\ stable_channel'.channel_id = channels[1].channel_id ]_vars

\* a pass on a record whose channel is gone while another channel is listed
C13_Witness ==
    /\ Checked /\ ~last.found
    /\ sc.channel_id = 1
    /\ channels = <<Channel2Snapshot>>

(* C14: no pass, whatever its outcome, changes expected_fiat,               *)
(* expected_native, the role or the counterparty of the record.            *)
C14_TargetAndRoleKept ==
    [][ last'.op \in {"update_balances", "check_stability"} =>
            /\ stable_channel'.expected_usd = stable_channel.expected_usd
            /\ stable_channel'.expected_btc = stable_channel.expected_btc
            /\ stable_channel'.is_stable_receiver = stable_channel.is_stable_receiver
            /\ stable_channel'.counterparty = stable_channel.counterparty ]_vars

\* a pass that reconciled the record and whose payment was accepted
C14_Witness ==
    /\ Checked /\ last.found
    /\ last.action = "Pay" /\ last.result = "Ok"
    /\ sc.stable_receiver_btc > 0
    /\ sc.expected_usd > 0

(* C15: after every pass, receiver_fiat and provider_fiat are the          *)
(* conversions of receiver_native and provider_native at the record's      *)
(* latest_rate (the rate is written only together with the balances).      *)
C15_FiatAtLatestRate ==
    Checked =>
        /\ sc.stable_receiver_usd = USD_from_bitcoin(sc.stable_receiver_btc, sc.latest_price)
        /\ sc.stable_provider_usd = USD_from_bitcoin(sc.stable_provider_btc, sc.latest_price)

(* C16: a designation that fails (empty selection, unparseable amount,     *)
(* no live channel with the selected id) leaves the pegged records and the *)
(* persisted list exactly as they were and reports the failure.            *)
C16_FailedDesignation ==
    [][ last'.op = "designate_stable_channel" =>
            /\ (last'.amount = 0 => ~last'.found)
            /\ (~last'.found /\ ~panicked') =>
                   /\ stable_channels' = stable_channels
                   /\ stable_channels_file' = stable_channels_file
                   /\ last'.result \in { "Please select a channel ID",
                                         "Invalid amount format",
                                         "No channel found matching" } ]_vars

\* a selection matching no live channel, refused while a record and a
\* persisted list exist
C16_Witness ==
    /\ last.op = "designate_stable_channel" /\ ~last.found
    /\ last.result = "No channel found matching"
    /\ stable_channels # <<>>
    /\ stable_channels_file.exists /\ stable_channels_file.entries # <<>>

(* C17: once poll_events has handled the ChannelClosed event of a channel, *)
(* no record of stable_channels is bound to that channel.                  *)
C17_ClosedRecordDiscarded ==
    last.op = "poll_events" =>
        \A i \in 1..Len(last.handled) : \A j \in 1..Len(stable_channels) :
            stable_channels[j].channel_id # last.handled[i].channel_id

(* C18: a persisted entry whose channel was absent when the list was       *)
(* loaded (no record of stable_channels is bound to its channel) stays in  *)
(* the persisted list, under its channel id, across every later save.      *)
C18_AbsentEntryKept ==
    [][ \A i \in 1..Len(stable_channels_file.entries) :
            (\A k \in 1..Len(stable_channels) :
                 channel_id_to_string(stable_channels[k].channel_id)
                     # stable_channels_file.entries[i].channel_id)
            => \E j \in 1..Len(stable_channels_file'.entries) :
                   stable_channels_file'.entries[j].channel_id
                       = stable_channels_file.entries[i].channel_id ]_vars

(* C19: when a pass decides Stable (DoNothing), a second pass that follows *)
(* it with the same channel list and the same stored rate decides Stable   *)
(* again, leaves every field of the record as the first pass left it, and  *)
(* sends nothing.                                                          *)
C19_StableAgain ==
    [][ ( /\ last.op = "check_stability" /\ last.action = "DoNothing"
          /\ last'.op = "check_stability" ) =>
            /\ last'.action = "DoNothing"
            /\ stable_channel' = stable_channel
            /\ sends' = <<>> ]_vars

\* two passes in a row that decided Stable on a reconciled record with a
\* positive target
C19_Witness ==
    /\ Checked /\ last.found
    /\ last.previous = "DoNothing" /\ last.action = "DoNothing"
    /\ sc.expected_usd > 0
    /\ sc.stable_receiver_btc > 0

(* C20: a pass whose reconciliation failed (update_balances found no       *)
(* channel) makes no Pay decision and sends no payment.                    *)
C20_NoPayWithoutReconciliation ==
    (Checked /\ ~last.found) =>
        /\ last.action # "Pay"
        /\ NoPayment

(* C21: every send made by a pass of check_stability satisfies the         *)
(* validation of execute_payment: a positive amount, a live and ready      *)
(* channel bound to the record whose outbound capacity covers the amount,  *)
(* and the counterparty of that channel as destination.                    *)
C21_PassSendsValidated ==
    Checked =>
        \A k \in 1..Len(sends) :
            /\ sends[k].amount > 0
            /\ \E c \in LiveChannels :
                  /\ c.is_channel_ready
                  /\ c.outbound_capacity_msat >= sends[k].amount
                  /\ c.counterparty_node_id = sends[k].destination

\* a check_stability of the user's record is running
InPass == ui.pc \in {"update_balances", "send"}

(* C22: while a pass on the user's record is running, no step starts       *)
(* another pass on it, and between the reconciliation and the send of the  *)
(* pass nothing else writes the record: a step taken during a pass is      *)
(* either a step of the runtime, which leaves the UI thread and the record *)
(* alone, or the next step of that pass.                                   *)
C22_OnePassInFlight ==
    [][ InPass =>
          \/ ui' = ui /\ stable_channel' = stable_channel
          \/ panicked'
          \/ /\ ui.pc = "update_balances"
             /\ ui'.pc \in {"send", ui.ret}
          \/ /\ ui.pc = "send"
             /\ ui'.pc = ui.ret
             /\ stable_channel' \in { stable_channel,
                                      [stable_channel EXCEPT !.payment_made = TRUE] } ]_vars

\* a PaymentReceived event queued while the pass started by the timer is
\* about to send
C22_Witness ==
    /\ ui.pc = "send" /\ ui.ret = "frame"
    /\ frames > 0
    /\ events # <<>> /\ Head(events).kind = "PaymentReceived"

(* C23: a pass sends at most once, and every started pass that does not    *)
(* abort the process can always take its next step (the reconciliation     *)
(* yields a decision for every price fetch, the send is enabled), which    *)
(* leads in at most two steps to the statement after its call, whatever    *)
(* it decided and whatever the result of its one send.                     *)
C23_PassCompletes ==
    /\ [](Len(sends) <= 1)
    /\ [](InPass /\ ~panicked =>
             /\ ui.ret \in {"frame", "event_handled"}
             /\ ui.pc = "update_balances" =>
                    \A feed \in FeedResults :
                        reconcile_and_decide(channels, stable_channel, feed,
                                             overflow_checks).action
                            \in {"DoNothing", "Wait", "Pay", "HighRisk", "Panic"}
             /\ ui.pc = "send" => ENABLED UserPassSends)
    /\ [][ (InPass /\ ui' # ui) =>
              \/ /\ ui.pc = "update_balances"
                 /\ ui'.pc \in {"send", ui.ret}
                 /\ sends' = <<>>
              \/ /\ ui.pc = "send"
                 /\ ui'.pc = ui.ret
                 /\ Len(sends') = 1
                 /\ last'.result \in {"Ok", "SendFailed"} ]_vars

\* a pass that has returned to poll_events after its one send failed
C23_Witness ==
    /\ ui.pc = "event_handled"
    /\ last.op = "UserApp::check_stability" /\ last.action = "Pay"
    /\ last.result = "SendFailed"
    /\ Len(sends) = 1
    /\ ~stable_channel.payment_made

(* C24: the handler of a ChannelReady or PaymentReceived event taken by    *)
(* poll_events starts a pass on the user's record.                         *)
C24_EventStartsPass ==
    [][ ( /\ ui.pc = "handler"
          /\ ui.event.kind \in {"ChannelReady", "PaymentReceived"}
          /\ ui' # ui ) =>
            ui'.pc = "update_balances" ]_vars

(* C25: in poll_events the event returned by next_event stays at the head  *)
(* of the queue while its handler and the pass the handler starts run; it  *)
(* is removed by event_handled, once, before next_event is called again,   *)
(* whatever its kind; poll_events goes on to the timer only when           *)
(* next_event finds the queue empty.                                       *)
C25_EventsAcknowledged ==
    /\ [](ui.event # NoEvent =>
             /\ ui.pc \in {"handler", "update_balances", "send", "event_handled"}
             /\ events # <<>> /\ Head(events) = ui.event)
    /\ [][ /\ (ui.pc = "next_event" /\ ui' # ui) =>
                 IF events = <<>>
                 THEN ui'.pc = "timer" /\ events' = events
                 ELSE ui'.pc = "handler" /\ ui'.event = Head(events) /\ events' = events
           /\ (ui.pc = "handler" /\ ui' # ui) =>
                 /\ ui'.event = ui.event
                 /\ \/ ui'.pc = "event_handled"
                    \/ ui'.pc = "update_balances" /\ ui'.ret = "event_handled"
           /\ (ui.pc = "event_handled" /\ ui' # ui) =>
                 /\ events' = Tail(events)
                 /\ ui'.pc = "next_event" /\ ui'.event = NoEvent
           /\ (ui'.pc = "next_event" /\ ui' # ui) =>
                 ui.pc \in {"frame", "event_handled"}
           /\ (ui.pc # "event_handled" \/ ui' = ui) =>
                 /\ Len(events') >= Len(events)
                 /\ SubSeq(events', 1, Len(events)) = events ]_vars

\* a PaymentReceived event about to be acknowledged after the pass of its
\* handler has paid
C25_Witness ==
    /\ ui.pc = "event_handled" /\ ui.event.kind = "PaymentReceived"
    /\ last.op = "UserApp::check_stability" /\ last.result = "Ok"
    /\ events # <<>> /\ Head(events) = ui.event

\* the two ends hold the same target and neither is suspended
SameTarget(u, l) ==
    /\ u.sc.expected_usd = l.sc.expected_usd
    /\ u.sc.latest_price = l.sc.latest_price
    /\ u.sc.risk_level <= RiskThreshold
    /\ l.sc.risk_level <= RiskThreshold

OutOfBand(e) == ~percent_from_par_below_threshold(e.sc)

\* a deviation of one sat is inside the dead-band of the record
DeadBandHoldsASat(rec) ==
    MsatPerSat * rec.latest_price <= (Abs(rec.expected_usd) - 1) \div DeadBandDivisor

\* C26 as stated: the two ends of one channel, on the same balances, target
\* and rate, never both decide Pay, and when an end measures a deviation of
\* 0.1 % or more exactly one end decides Pay and the other Wait
C26_OnePayer_Original ==
    /\ ~(UserEndDecision.action = "Pay" /\ LspEndDecision.action = "Pay")
    /\ (/\ SameTarget(UserEndDecision, LspEndDecision)
        /\ OutOfBand(UserEndDecision) \/ OutOfBand(LspEndDecision))
           => {UserEndDecision.action, LspEndDecision.action} = {"Pay", "Wait"}

\* C26 amended: the two ends never both decide Pay; when both measure a
\* deviation of 0.1 % or more and the dead-band is at least a sat wide,
\* exactly one decides Pay and the other Wait; when only one does (each end
\* truncates its own balance to whole sats, so the two measures differ by up
\* to one sat) that end decides Wait and the other DoNothing
C26_OnePayer ==
    /\ ~(UserEndDecision.action = "Pay" /\ LspEndDecision.action = "Pay")
    /\ SameTarget(UserEndDecision, LspEndDecision) =>
           /\ (/\ OutOfBand(UserEndDecision) /\ OutOfBand(LspEndDecision)
               /\ DeadBandHoldsASat(UserEndDecision.sc))
                  => {UserEndDecision.action, LspEndDecision.action} = {"Pay", "Wait"}
           /\ (OutOfBand(UserEndDecision) /\ ~OutOfBand(LspEndDecision))
                  => /\ UserEndDecision.action = "Wait"
                     /\ LspEndDecision.action = "DoNothing"
           /\ (~OutOfBand(UserEndDecision) /\ OutOfBand(LspEndDecision))
                  => /\ UserEndDecision.action = "DoNothing"
                     /\ LspEndDecision.action = "Wait"

\* the user's pass has decided Wait on balances on which the LSP's pass
\* decides Pay
C26_Witness ==
    /\ last.op = "UserApp::update"
    /\ last.action = "Wait"
    /\ SameTarget(UserEndDecision, LspEndDecision)
    /\ UserEndDecision.action = "Wait"
    /\ LspEndDecision.action = "Pay"

Unbound == stable_channel.channel_id = DefaultChannelId

\* the receiver's balance in the first channel of the list
first_channel_our_sats ==
    channels[1].outbound_capacity_msat \div MsatPerSat
        + channels[1].unspendable_punishment_reserve

\* C28: a pass of the user's application that runs on an unbound record while
\* the channel list is not empty binds the record to the first channel of the
\* list and in the same pass sets its balances from that channel; the record
\* is bound by a pass only; and whenever the frame reaches the timer, a tick
\* with an available rate starts a pass
C28_BoundByFirstPass ==
    /\ [][ (/\ ui.pc = "update_balances" /\ ui' # ui
            /\ Unbound /\ channels # <<>> /\ ~panicked')
           => /\ last'.found
              /\ stable_channel'.channel_id = channels[1].channel_id
              /\ stable_channel'.stable_receiver_btc = first_channel_our_sats
              /\ stable_channel'.stable_receiver_usd =
                     USD_from_bitcoin(first_channel_our_sats,
                                      stable_channel'.latest_price)
              /\ first_channel_our_sats <= channels[1].channel_value_sats
                     => stable_channel'.stable_provider_btc =
                            channels[1].channel_value_sats - first_channel_our_sats ]_vars
    /\ [][ (Unbound /\ ~Unbound') => (ui.pc = "update_balances" /\ channels # <<>>) ]_vars
    /\ [][ (/\ ui.pc = "update_balances" /\ ui' # ui /\ Unbound /\ channels = <<>>)
           => Unbound' /\ ~last'.found ]_vars
    /\ [](ui.pc = "timer" /\ ~panicked
            => ENABLED (UserTimer /\ ui'.pc = "update_balances"))

\* a record created while the node had no channel has been bound by a pass
C28_Witness ==
    /\ last.op = "UserApp::check_stability"
    /\ last.found
    /\ ~panicked
    /\ stable_channel.expected_btc = 0
    /\ stable_channel.channel_id = 2
    /\ Len(channels) = 2

\* the balance of the record's own side and of the other side
our_native == IF sc.is_stable_receiver THEN sc.stable_receiver_btc
              ELSE sc.stable_provider_btc
their_native == IF sc.is_stable_receiver THEN sc.stable_provider_btc
                ELSE sc.stable_receiver_btc

\* C29: a reconciliation that finds the channel neither aborts nor stores a
\* wrapped balance: the balance of the record's own side is at most the
\* capacity of the channel and the other side's balance is the capacity less
\* that balance
C29_NoWrappedBalance ==
    (last.op \in {"update_balances", "check_stability"} /\ last.found) =>
        /\ ~panicked
        /\ our_native <= last.channel_value_sats
        /\ their_native = last.channel_value_sats - our_native

\* C30: the risk_level of every record of the LSP's list and of the user's
\* record is 0, and no pass takes the HighRisk outcome
C30_RiskLevelZero ==
    /\ \A i \in 1..Len(stable_channels) : stable_channels[i].risk_level = 0
    /\ stable_channel.risk_level = 0
    /\ last.action # "HighRisk"
    /\ \A k \in 1..Len(last.passes) : last.passes[k].action # "HighRisk"

\* the loop has run on a designated record outside its dead-band
C30_Witness ==
    /\ last.op = "check_and_update_stable_channels"
    /\ stable_channels # <<>>
    /\ \E k \in 1..Len(last.passes) : last.passes[k].action \in {"Pay", "Wait"}

====
